---- MODULE Spec2Model ----
\* Role assignment and access control of floripa-checkin-pro: the user_roles and
\* access_codes tables, their row-level-security policies, the SECURITY DEFINER
\* functions has_role / get_user_role / assign_role_with_code, the bootstrap admin
\* grant, and the requests clients send straight to the tables.
\*
\* The database state is the one left by all migrations (the policies are the
\* corrected ones of 20251210114021_fix_security_warnings.sql).  Every PL/pgSQL
\* statement of assign_role_with_code is one step: under READ COMMITTED each
\* statement takes its own snapshot, so other sessions interleave between them.
EXTENDS Integers, FiniteSets, Sequences, TLC

VARIABLES auth_users, profiles, user_roles, access_codes, calls, last, nrequests,
          events, guests, activity_logs, signups,
          code_stamps, updates, code_form, auth_ctx, page, removal

\* The tables of the event pages
appdata == <<events, guests, activity_logs>>

\* The columns updated_at and updated_by of access_codes, the update requests in
\* flight, and the state of the components AccessCodeManagement, AuthProvider
\* and the event page
ui == <<code_stamps, updates, code_form, auth_ctx, page, removal>>

vars == <<auth_users, profiles, user_roles, access_codes, calls, last, nrequests,
          appdata, signups, ui>>

\* ---------------------------------------------------------------- values

NULL == "NULL"

\* auth.uid() of a request that carries no session
Anon == "anon"

\* CREATE TYPE public.app_role AS ENUM ('admin', 'equipe', 'recepcao')
app_role == {"admin", "equipe", "recepcao"}

\* Identities of the identity provider (rows of auth.users), each with its e-mail
\* address; the grant of migration 20251203122757 presupposes their profiles.
Users == {"leticia", "guest"}

\* The identity that exists before anybody signs up through the form
Founders == {"leticia"}

\* A uuid that is the id of no identity
Nobody == "nobody"

\* Values of the _user_id argument
UserIds == Users \cup {Nobody}

Email(u) == IF u = "leticia" THEN "leticia@spr.net.br" ELSE "guest@example.com"

\* auth.uid() values a request can carry
Callers == auth_users \cup {Anon}

\* The seeded access codes
SeedCodes == {[role |-> "admin", code |-> "MASTER_FLORIPA"],
              [role |-> "equipe", code |-> "EQUIPE_2025"],
              [role |-> "recepcao", code |-> "RECEPCAO_EVENTO"]}

\* The code seeded for a role
SeedCode(r) == (CHOOSE row \in SeedCodes : row.role = r).code

\* Codes an admin types into the access-code form
NewCodes == {"NEW_CODE_2026"}

\* Codes two admins type into the access-code form
FormCodes == {"NEW_CODE_2026", "FLORIPA_2026"}

\* What an admin leaves in a field of the form with the three keys
TypedKeys == {"NEW_CODE_2026", ""}

\* const updates = [{ role: 'admin' ... }, { role: 'equipe' ... }, { role:
\* 'recepcao' ... }]
SaveOrder == <<"admin", "equipe", "recepcao">>

\* Codes a signup submits
SubmittedCodes == {"MASTER_FLORIPA", "EQUIPE_2025", "RECEPCAO_EVENTO",
                   "NEW_CODE_2026", "WRONG_CODE"}

\* The event of the event page, its owner, and the guest on its list
EventIds == {"e1"}

GuestIds == {"g1"}

\* What the edit form of a guest holds: name, company, role
EditForms == {[name |-> "Ana", company |-> NULL, role |-> NULL],
              [name |-> "Eva", company |-> "ACME", role |-> "VIP"]}

\* action column of the log lines the pages write
LogActions == {"Check-in"}

\* The sessions that call assign_role_with_code, one call each
Calls == {1, 2}

\* Requests sent straight to the tables in one behaviour
MaxRequests == 2

\* E-mail addresses named by the bootstrap grant
BootstrapEmails == {"comercial@floripasquare.com.br", "leticia@spr.net.br"}

\* ---------------------------------------------------------------- role resolver

\* rows of a user_roles table of one user
RowsIn(table, u) == {row \in table : row.user_id = u}

\* rows of user_roles of one user
RowsOf(u) == RowsIn(user_roles, u)

\* has_role without the AND role = _role of its WHERE clause
has_role_AnyRole(_user_id, _role) ==
    \E row \in user_roles : row.user_id = _user_id

\* public.has_role(_user_id, _role)
has_role(_user_id, _role) ==
    \E row \in user_roles : row.user_id = _user_id /\ row.role = _role

\* public.get_user_role(_user_id): SELECT role ... LIMIT 1, the set of values the
\* query can return (NULL when there is no row)
get_user_role(_user_id) ==
    IF RowsOf(_user_id) = {} THEN {NULL}
    ELSE {row.role : row \in RowsOf(_user_id)}

\* ---------------------------------------------------------------- policies

\* "Users can view their own role" OR "Admins can view all roles"
UserRolesSelectUsing(caller, row) ==
    caller = row.user_id \/ has_role(caller, "admin")

\* The dropped policy "System can insert roles" left in place: WITH CHECK (true)
UserRolesInsertCheck_SystemCanInsert(caller, row) == TRUE

\* "Only secure function can insert roles": WITH CHECK (false)
UserRolesInsertCheck(caller, row) == FALSE

\* "Users can view their own profile": USING (auth.uid() = user_id)
ProfilesSelectUsing(caller, row) == caller = row.user_id

\* profiles has row-level security enabled and no policy FOR DELETE
ProfilesDeleteUsing(caller, row) == FALSE

\* A DELETE policy that also lets a user delete the own row
UserRolesDeleteUsing_OwnRow(caller, row) ==
    caller = row.user_id \/ has_role(caller, "admin")

\* "Admins can delete roles"
UserRolesDeleteUsing(caller, row) == has_role(caller, "admin")

\* An UPDATE policy that lets a user update the own row
UserRolesUpdateUsing_OwnRow(caller, row) == caller = row.user_id

\* user_roles has no UPDATE policy: with row-level security enabled, no row passes
UserRolesUpdateUsing(caller, row) == FALSE

\* The dropped policy "Anyone can read codes for validation" left in place
AccessCodesSelectUsing_Anyone(caller, row) == TRUE

\* "Only admins can view access codes"
AccessCodesSelectUsing(caller, row) == has_role(caller, "admin")

\* An UPDATE policy that passes no row
AccessCodesUpdateUsing_Nobody(caller, row) == FALSE

\* "Admins can update codes"
AccessCodesUpdateUsing(caller, row) == has_role(caller, "admin")

\* access_codes has no INSERT policy: no new row passes
AccessCodesInsertCheck(caller, row) == FALSE

\* A DELETE policy that lets admins delete codes
AccessCodesDeleteUsing_Admins(caller, row) == has_role(caller, "admin")

\* access_codes has no DELETE policy: no row passes
AccessCodesDeleteUsing(caller, row) == FALSE

\* role app_role NOT NULL UNIQUE of access_codes: the rows of a table clash
AccessCodesUniqueViolation(table) ==
    \E r1 \in table, r2 \in table : r1 # r2 /\ r1.role = r2.role

\* EXISTS (SELECT 1 FROM events WHERE events.id = guests.event_id AND
\* events.user_id = auth.uid())
OwnsEventOf(caller, row) ==
    \E e \in events : e.id = row.event_id /\ e.user_id = caller

\* "Users can view guests of their events" OR "Public can view guests by event"
GuestsSelectUsing(caller, row) == OwnsEventOf(caller, row) \/ TRUE

\* "Users can create guests for their events" OR "Public can create guests
\* (walk-in)"
GuestsInsertCheck(caller, row) == OwnsEventOf(caller, row) \/ TRUE

\* "Users can update guests of their events" OR "Public can update guest
\* check-in"; neither has a WITH CHECK, so the new row is tested by the same
\* expressions
GuestsUpdateUsing(caller, row) == OwnsEventOf(caller, row) \/ TRUE

\* "Users can delete guests of their events"
GuestsDeleteUsing(caller, row) == OwnsEventOf(caller, row)

\* A SELECT policy on activity_logs for every signed-in caller
ActivityLogsSelectUsing_Authenticated(caller, row) == caller # Anon

\* "Admins and equipe can view logs"
ActivityLogsSelectUsing(caller, row) ==
    has_role(caller, "admin") \/ has_role(caller, "equipe")

\* "Authenticated users can create logs": auth.uid() IS NOT NULL
ActivityLogsInsertCheck(caller, row) == caller # Anon

\* UNIQUE (user_id, role) of user_roles
UserRolesUniqueViolation(row) ==
    \E old \in user_roles : old.user_id = row.user_id /\ old.role = row.role

\* user_id REFERENCES auth.users(id)
UserRolesForeignKeyViolation(row) == row.user_id \notin auth_users

\* ---------------------------------------------------------------- initial state

IdleCall == [pc |-> "idle", user_id |-> NULL, role |-> NULL, ret |-> NULL,
             overlap |-> {}]

\* A signup form that has not been submitted
IdleSignUp == [pc |-> "idle", email |-> NULL, code |-> NULL, user_id |-> NULL,
               role |-> NULL, error |-> NULL]

NoRequest == [op |-> "none", caller |-> NULL, user_id |-> NULL,
              status |-> "ok", rows |-> {}]

\* updated_at TIMESTAMP WITH TIME ZONE NOT NULL DEFAULT now() and updated_by of
\* the seeded rows; the time of the seed is 0
SeedStamps == [r \in app_role |-> [updated_at |-> 0, updated_by |-> NULL]]

\* An update request that has not been sent
IdleUpdate == [pc |-> "idle", caller |-> NULL, role |-> NULL, code |-> NULL,
               stamped |-> FALSE, overlap |-> FALSE, error |-> NULL]

\* useState({ admin: '', equipe: '', recepcao: '' }), loading, saving
UnmountedForm == [pc |-> "loading", user |-> NULL,
                  keys |-> [r \in app_role |-> ""], step |-> 0]

\* useState<AppRole>(null) of AuthProvider, no session, no request in flight
SignedOutCtx == [user |-> NULL, role |-> NULL, fetching |-> {}]

\* handleToggleCheckIn has not been called; while it runs, the fields hold what
\* its argument guest said when it was called
IdleToggle == [pc |-> "idle", id |-> NULL, checked_in |-> FALSE,
               checkin_time |-> NULL]

\* The event page before it is opened: useState<Guest[]>([]), no request in
\* flight
ClosedPage == [user |-> NULL, guests |-> {}, fetched |-> {},
               toggles |-> [t \in Calls |-> IdleToggle]]

\* handleDeleteUser has not been called
IdleRemoval == [pc |-> "idle", caller |-> NULL, user_id |-> NULL, toast |-> NULL]

\* No component is mounted and no update is in flight
InitUi ==
    /\ removal = IdleRemoval
    /\ code_stamps = SeedStamps
    /\ updates = [a \in Calls |-> IdleUpdate]
    /\ code_form = UnmountedForm
    /\ auth_ctx = SignedOutCtx
    /\ page = ClosedPage

\* The role store after the migrations, before any signup
InitStore ==
    /\ auth_users = Users
    /\ profiles = {[user_id |-> u, email |-> Email(u)] : u \in Users}
    /\ user_roles = {}
    /\ access_codes = SeedCodes
    /\ calls = [c \in Calls |-> IdleCall]
    /\ last = NoRequest
    /\ nrequests = 0
    /\ signups = [c \in Calls |-> IdleSignUp]
    /\ InitUi

Init ==
    /\ InitStore
    /\ events = {}
    /\ guests = {}
    /\ activity_logs = {}

\* Time of a check-in: new Date().toISOString()
Now == "now"

\* A user has created an event and added a guest to its list, which wrote a line
\* to the log
InitData ==
    /\ InitStore
    /\ events = {[id |-> "e1", user_id |-> "guest"]}
    /\ guests = {[id |-> "g1", event_id |-> "e1", name |-> "Ana", company |-> NULL,
                  role |-> NULL, checked_in |-> FALSE, checkin_time |-> NULL]}
    /\ activity_logs = {[event_id |-> "e1", user_id |-> "guest",
                         action |-> "Adicionou"]}

\* ---------------------------------------------------------------- bootstrap

\* Migration 20251203122757: INSERT INTO user_roles SELECT p.user_id, 'admin'
\* FROM profiles p WHERE p.email IN (...) AND NOT EXISTS (a role row of p.user_id)
BootstrapAdminGrant ==
    /\ user_roles' = user_roles \cup
          {[user_id |-> p.user_id, role |-> "admin"] :
              p \in {q \in profiles : /\ q.email \in BootstrapEmails
                                      /\ RowsOf(q.user_id) = {}}}
    /\ UNCHANGED <<ui, appdata, signups, auth_users, profiles, access_codes, calls, last, nrequests>>

\* ---------------------------------------------------------------- assign_role_with_code

\* The lookup without its WHERE clause
MatchingRoles_NoWhere(_access_code) == {row.role : row \in access_codes}

\* SELECT role FROM public.access_codes WHERE code = _access_code
MatchingRoles(_access_code) ==
    {row.role : row \in {r \in access_codes : r.code = _access_code}}

\* The statements of the function that are still to run
Executing == {"check", "insert"}

\* The function has returned or raised
Finished == {"ret_invalid", "ret_assigned", "ret_role",
             "raised_unique", "raised_fk"}

\* Call of the function and its first statement, SELECT role INTO _role (a
\* SELECT INTO that matches several rows keeps the first one it is given);
\* IF _role IS NULL THEN RETURN NULL.  The function never reads auth.uid():
\* _user_id is whatever the caller passes.
AssignLookup(c, _user_id, _access_code) ==
    /\ calls[c].pc = "idle"
    /\ \A d \in Calls : d < c => calls[d].pc # "idle"
    /\ LET started == [IdleCall EXCEPT
                          !.user_id = _user_id,
                          !.overlap = {d \in Calls \ {c} : calls[d].pc \in Executing}]
       IN IF MatchingRoles(_access_code) = {}
          THEN calls' = [calls EXCEPT ![c] = [started EXCEPT !.pc = "ret_invalid"]]
          ELSE \E _role \in MatchingRoles(_access_code) :
                  calls' = [calls EXCEPT
                               ![c] = [started EXCEPT !.pc = "check", !.role = _role]]
    /\ UNCHANGED <<ui, appdata, signups, auth_users, profiles, user_roles, access_codes, last, nrequests>>

\* IF EXISTS (SELECT 1 FROM user_roles WHERE user_id = _user_id) THEN RETURN NULL
AssignCheck(c) ==
    /\ calls[c].pc = "check"
    /\ calls' = IF RowsOf(calls[c].user_id) # {}
                THEN [calls EXCEPT ![c].pc = "ret_assigned", ![c].role = NULL]
                ELSE [calls EXCEPT ![c].pc = "insert"]
    /\ UNCHANGED <<ui, appdata, signups, auth_users, profiles, user_roles, access_codes, last, nrequests>>

\* INSERT INTO user_roles (user_id, role) VALUES (_user_id, _role); RETURN _role.
\* The function bypasses row-level security; the table constraints still apply.
AssignInsert(c) ==
    /\ calls[c].pc = "insert"
    /\ LET row == [user_id |-> calls[c].user_id, role |-> calls[c].role]
       IN IF UserRolesUniqueViolation(row)
          THEN /\ calls' = [calls EXCEPT ![c].pc = "raised_unique", ![c].role = NULL]
               /\ UNCHANGED user_roles
          ELSE IF UserRolesForeignKeyViolation(row)
          THEN /\ calls' = [calls EXCEPT ![c].pc = "raised_fk", ![c].role = NULL]
               /\ UNCHANGED user_roles
          ELSE /\ user_roles' = user_roles \cup {row}
               /\ calls' = [calls EXCEPT ![c].pc = "ret_role",
                                         ![c].ret = calls[c].role,
                                         ![c].role = NULL]
    /\ UNCHANGED <<ui, appdata, signups, auth_users, profiles, access_codes, last, nrequests>>

\* What signUp makes of the rpc's answer: roleError, then !assignedRole
SignUpError(call) ==
    IF call.pc \in {"raised_unique", "raised_fk"}
    THEN "Erro ao validar codigo de acesso. Tente novamente."
    ELSE IF call.ret = NULL
    THEN "Codigo de acesso invalido. Verifique com o administrador."
    ELSE NULL

\* ---------------------------------------------------------------- signUp

\* The message of signUp for a code that matched no role
InvalidCode == "Codigo de acesso invalido. Verifique com o administrador."

\* The error of supabase.auth.signUp for an e-mail address that has an identity
AlreadyRegistered == "User already registered"

Registered(email) == \E u \in auth_users : Email(u) = email

\* Only the identity provider and, on a new identity, the trigger
\* on_auth_user_created (handle_new_user) write auth.users and profiles
CreateIdentity(u) ==
    /\ auth_users' = auth_users \cup {u}
    /\ profiles' = profiles \cup {[user_id |-> u, email |-> Email(u)]}

\* handleSignup disables the form while a submission runs (setLoading(true)):
\* a form is submitted again only after the earlier submission returned
Submit(s) ==
    /\ signups[s].pc = "idle"
    /\ \A t \in Calls : t < s => signups[t].pc = "done"

\* signUp of the hook that calls the function: supabase.auth.signUp comes first;
\* if (signUpError) return { error: signUpError }
SignUpAuth(s, u, _access_code) ==
    /\ Submit(s)
    /\ LET form == [IdleSignUp EXCEPT !.email = Email(u), !.code = _access_code]
       IN IF Registered(Email(u))
          THEN /\ signups' = [signups EXCEPT
                                 ![s] = [form EXCEPT !.pc = "done",
                                                     !.error = AlreadyRegistered]]
               /\ UNCHANGED <<auth_users, profiles>>
          ELSE /\ CreateIdentity(u)
               /\ signups' = [signups EXCEPT
                                 ![s] = [form EXCEPT !.pc = "rpc", !.user_id = u]]
    /\ UNCHANGED <<ui, appdata, user_roles, access_codes, calls, last, nrequests>>

\* supabase.rpc('assign_role_with_code', { _user_id: authData.user.id,
\* _access_code: accessCode })
SignUpRpc(s) ==
    /\ signups[s].pc = "rpc"
    /\ AssignLookup(s, signups[s].user_id, signups[s].code)

\* The answer of the rpc: roleError, !assignedRole, else return { error: null }
SignUpReturn(s) ==
    /\ signups[s].pc = "rpc"
    /\ calls[s].pc \in Finished
    /\ signups' = [signups EXCEPT ![s].pc = "done",
                                  ![s].error = SignUpError(calls[s])]
    /\ UNCHANGED <<ui, appdata, auth_users, profiles, user_roles, access_codes, calls,
                   last, nrequests>>

\* signUp of the hook that writes the table itself: first
\* supabase.from('access_codes').select('role').eq('code', accessCode).single(),
\* which fails unless exactly one row comes back
OldSignUpValidate(s, caller, u, _access_code) ==
    /\ Submit(s)
    /\ LET form == [IdleSignUp EXCEPT !.email = Email(u), !.code = _access_code]
           rows == {row \in access_codes :
                       /\ row.code = _access_code
                       /\ AccessCodesSelectUsing(caller, row)}
       IN IF Cardinality(rows) # 1
          THEN signups' = [signups EXCEPT
                              ![s] = [form EXCEPT !.pc = "done", !.error = InvalidCode]]
          ELSE \E row \in rows :
                  signups' = [signups EXCEPT
                                 ![s] = [form EXCEPT !.pc = "old_auth",
                                                     !.role = row.role]]
    /\ UNCHANGED <<ui, appdata, auth_users, profiles, user_roles, access_codes, calls,
                   last, nrequests>>

\* then supabase.auth.signUp; if (signUpError) return { error: signUpError }
OldSignUpAuth(s) ==
    /\ signups[s].pc = "old_auth"
    /\ IF Registered(signups[s].email)
       THEN /\ signups' = [signups EXCEPT ![s].pc = "done",
                                          ![s].error = AlreadyRegistered]
            /\ UNCHANGED <<auth_users, profiles>>
       ELSE \E u \in Users :
               /\ Email(u) = signups[s].email
               /\ CreateIdentity(u)
               /\ signups' = [signups EXCEPT ![s].pc = "old_insert",
                                             ![s].user_id = u]
    /\ UNCHANGED <<ui, appdata, user_roles, access_codes, calls, last, nrequests>>

\* then supabase.from('user_roles').insert({ user_id, role: validatedRole }) in the
\* session of the new identity; roleError is written to the console and
\* return { error: null } follows either way
OldSignUpInsert(s) ==
    /\ signups[s].pc = "old_insert"
    /\ LET row == [user_id |-> signups[s].user_id, role |-> signups[s].role]
           refused == \/ ~UserRolesInsertCheck(signups[s].user_id, row)
                      \/ UserRolesUniqueViolation(row)
                      \/ UserRolesForeignKeyViolation(row)
       IN user_roles' = IF refused THEN user_roles ELSE user_roles \cup {row}
    /\ signups' = [signups EXCEPT ![s].pc = "done", ![s].error = NULL]
    /\ UNCHANGED <<ui, appdata, auth_users, profiles, access_codes, calls, last,
                   nrequests>>

\* ---------------------------------------------------------------- requests to the tables

Request(op, caller, _user_id, status, rows) ==
    [op |-> op, caller |-> caller, user_id |-> _user_id,
     status |-> status, rows |-> rows]

\* One more request is sent
Send == nrequests < MaxRequests /\ nrequests' = nrequests + 1

\* supabase.from('user_roles').insert({ user_id, role })
InsertUserRole(caller, _user_id, _role) ==
    LET row == [user_id |-> _user_id, role |-> _role]
        status == IF ~UserRolesInsertCheck(caller, row) THEN "rls_violation"
                  ELSE IF UserRolesUniqueViolation(row) THEN "unique_violation"
                  ELSE IF UserRolesForeignKeyViolation(row) THEN "fk_violation"
                  ELSE "ok"
    IN /\ user_roles' = IF status = "ok" THEN user_roles \cup {row} ELSE user_roles
       /\ last' = Request("insert_user_roles", caller, NULL, status, {})
       /\ Send /\ UNCHANGED <<ui, appdata, signups, auth_users, profiles, access_codes, calls>>

\* supabase.from('user_roles').update({ role }).eq('user_id', userId)
UpdateUserRole(caller, _user_id, _role) ==
    LET targets == {row \in RowsOf(_user_id) :
                       /\ UserRolesUpdateUsing(caller, row)
                       /\ UserRolesSelectUsing(caller, row)}
        updated == {[row EXCEPT !.role = _role] : row \in targets}
        clash == \/ Cardinality(targets) > 1
                 \/ \E row \in updated : row \in user_roles \ targets
    IN /\ user_roles' = IF clash THEN user_roles
                        ELSE (user_roles \ targets) \cup updated
       /\ last' = Request("update_user_roles", caller, NULL,
                          IF clash THEN "unique_violation" ELSE "ok", {})
       /\ Send /\ UNCHANGED <<ui, appdata, signups, auth_users, profiles, access_codes, calls>>

\* supabase.from('user_roles').delete().eq('user_id', userId)
DeleteUserRoles(caller, _user_id) ==
    LET targets == {row \in RowsOf(_user_id) :
                       /\ UserRolesDeleteUsing(caller, row)
                       /\ UserRolesSelectUsing(caller, row)}
    IN /\ user_roles' = user_roles \ targets
       /\ last' = Request("delete_user_roles", caller, _user_id, "ok", {})
       /\ Send /\ UNCHANGED <<ui, appdata, signups, auth_users, profiles, access_codes, calls>>

\* supabase.from('access_codes').select('*')
SelectAccessCodes(caller) ==
    /\ last' = Request("select_access_codes", caller, NULL, "ok",
                       {row \in access_codes : AccessCodesSelectUsing(caller, row)})
    /\ Send /\ UNCHANGED <<ui, appdata, signups, auth_users, profiles, user_roles, access_codes, calls>>

\* supabase.from('access_codes').update({ code }).eq('role', role)
UpdateAccessCode(caller, _role, _code) ==
    LET targets == {row \in access_codes :
                       /\ row.role = _role
                       /\ AccessCodesUpdateUsing(caller, row)
                       /\ AccessCodesSelectUsing(caller, row)}
    IN /\ access_codes' = (access_codes \ targets) \cup
                              {[row EXCEPT !.code = _code] : row \in targets}
       /\ last' = Request("update_access_codes", caller, NULL, "ok", {})
       /\ Send /\ UNCHANGED <<ui, appdata, signups, auth_users, profiles, user_roles, calls>>

\* supabase.from('access_codes').insert({ role, code })
InsertAccessCode(caller, _role, _code) ==
    LET row == [role |-> _role, code |-> _code]
        status == IF ~AccessCodesInsertCheck(caller, row) THEN "rls_violation"
                  ELSE IF row \in access_codes
                          \/ AccessCodesUniqueViolation(access_codes \cup {row})
                  THEN "unique_violation"
                  ELSE "ok"
    IN /\ access_codes' = IF status = "ok" THEN access_codes \cup {row}
                          ELSE access_codes
       /\ last' = Request("insert_access_codes", caller, NULL, status, {})
       /\ Send /\ UNCHANGED <<ui, appdata, signups, auth_users, profiles, user_roles, calls>>

\* supabase.from('access_codes').delete().eq('role', role)
DeleteAccessCodes(caller, _role) ==
    LET targets == {row \in access_codes :
                       /\ row.role = _role
                       /\ AccessCodesDeleteUsing(caller, row)
                       /\ AccessCodesSelectUsing(caller, row)}
    IN /\ access_codes' = access_codes \ targets
       /\ last' = Request("delete_access_codes", caller, NULL, "ok", {})
       /\ Send /\ UNCHANGED <<ui, appdata, signups, auth_users, profiles, user_roles, calls>>

\* supabase.from('access_codes').update({ role: newRole }).eq('role', role)
UpdateAccessCodeRole(caller, _role, _new_role) ==
    LET targets == {row \in access_codes :
                       /\ row.role = _role
                       /\ AccessCodesUpdateUsing(caller, row)
                       /\ AccessCodesSelectUsing(caller, row)}
        updated == (access_codes \ targets) \cup
                       {[row EXCEPT !.role = _new_role] : row \in targets}
        clash == \/ AccessCodesUniqueViolation(updated)
                 \/ Cardinality(updated) < Cardinality(access_codes)
    IN /\ access_codes' = IF clash THEN access_codes ELSE updated
       /\ last' = Request("update_access_codes_role", caller, NULL,
                          IF clash THEN "unique_violation" ELSE "ok", {})
       /\ Send /\ UNCHANGED <<ui, appdata, signups, auth_users, profiles, user_roles, calls>>

\* fetchUserRole, fetchUsers: supabase.from('user_roles').select('role')
\* .eq('user_id', userId)
SelectUserRoles(caller, _user_id) ==
    /\ last' = Request("select_user_roles", caller, NULL, "ok",
                       {row \in RowsOf(_user_id) : UserRolesSelectUsing(caller, row)})
    /\ Send /\ UNCHANGED <<ui, appdata, signups, auth_users, profiles, user_roles, access_codes, calls>>

\* supabase.rpc('has_role', { _user_id, _role }): SECURITY DEFINER, it reads
\* user_roles past the policies and never reads auth.uid()
RpcHasRole(caller, _user_id, _role) ==
    /\ last' = Request("rpc_has_role", caller, NULL, "ok",
                       {[result |-> has_role(_user_id, _role)]})
    /\ Send /\ UNCHANGED <<ui, appdata, signups, auth_users, profiles, user_roles, access_codes, calls>>

\* supabase.rpc('get_user_role', { _user_id }): SECURITY DEFINER as well
RpcGetUserRole(caller, _user_id) ==
    /\ \E _role \in get_user_role(_user_id) :
          last' = Request("rpc_get_user_role", caller, NULL, "ok",
                          {[result |-> _role]})
    /\ Send /\ UNCHANGED <<ui, appdata, signups, auth_users, profiles, user_roles, access_codes, calls>>

\* supabase.rpc('assign_role_with_code', { _user_id, _access_code }) sent from
\* the session of caller, the function running with no statement of another
\* session in between.  The body reads its two arguments only; the function is
\* SECURITY DEFINER and no statement revokes its execution from any role.
RpcAssignRoleWithCode(caller, _user_id, _access_code) ==
    /\ \E _role \in (IF MatchingRoles(_access_code) = {} THEN {NULL}
                      ELSE MatchingRoles(_access_code)) :
          LET row == [user_id |-> _user_id, role |-> _role]
          IN IF _role = NULL \/ RowsOf(_user_id) # {}
             THEN /\ last' = Request("rpc_assign_role_with_code", caller, _user_id,
                                     "ok", {[result |-> NULL]})
                  /\ UNCHANGED user_roles
             ELSE IF UserRolesForeignKeyViolation(row)
             THEN /\ last' = Request("rpc_assign_role_with_code", caller, _user_id,
                                     "fk_violation", {})
                  /\ UNCHANGED user_roles
             ELSE /\ last' = Request("rpc_assign_role_with_code", caller, _user_id,
                                     "ok", {[result |-> _role]})
                  /\ user_roles' = user_roles \cup {row}
    /\ Send /\ UNCHANGED <<ui, appdata, signups, auth_users, profiles, access_codes, calls>>

\* ---------------------------------------------------------------- AuthProvider

\* The callback of onAuthStateChange for a session of u, after a sign-in:
\* setSession, setUser, and setTimeout(() => fetchUserRole(session.user.id), 0)
AuthStateSignedIn(u) ==
    /\ auth_ctx.user = NULL
    /\ u \in auth_users
    /\ auth_ctx' = [auth_ctx EXCEPT
                       !.user = u,
                       !.fetching = @ \cup {[user_id |-> u, pc |-> "scheduled",
                                             data |-> NULL]}]
    /\ UNCHANGED <<code_stamps, updates, code_form, page, removal, appdata,
                   signups, auth_users, profiles, user_roles, access_codes,
                   calls, last, nrequests>>

\* fetchUserRole up to its await: supabase.from('user_roles').select('role')
\* .eq('user_id', userId) is answered under the policies of the session the
\* client holds then; data is the role of the row if the answer is one row
\* (single and maybeSingle give an error, and no data, for more)
fetchUserRole(f) ==
    /\ f \in auth_ctx.fetching
    /\ f.pc = "scheduled"
    /\ LET caller == IF auth_ctx.user = NULL THEN Anon ELSE auth_ctx.user
           rows == {row \in RowsOf(f.user_id) : UserRolesSelectUsing(caller, row)}
           data == IF Cardinality(rows) = 1
                   THEN (CHOOSE row \in rows : TRUE).role ELSE NULL
       IN auth_ctx' = [auth_ctx EXCEPT
                          !.fetching = (@ \ {f}) \cup
                              {[f EXCEPT !.pc = "answered", !.data = data]}]
    /\ UNCHANGED <<code_stamps, updates, code_form, page, removal, appdata,
                   signups, auth_users, profiles, user_roles, access_codes,
                   calls, last, nrequests>>

\* fetchUserRole after its await: if (data?.role) setRole(data.role) else
\* setRole(null).  Nothing compares userId with the user of the context.
fetchUserRoleResolved(f) ==
    /\ f \in auth_ctx.fetching
    /\ f.pc = "answered"
    /\ auth_ctx' = [auth_ctx EXCEPT !.role = f.data, !.fetching = @ \ {f}]
    /\ UNCHANGED <<code_stamps, updates, code_form, page, removal, appdata,
                   signups, auth_users, profiles, user_roles, access_codes,
                   calls, last, nrequests>>

\* signOut: await supabase.auth.signOut(), whose SIGNED_OUT event runs the
\* callback of onAuthStateChange with no session (setSession(null),
\* setUser(null), setRole(null)), then setRole(null).  Requests in flight are
\* not cancelled.
signOut ==
    /\ auth_ctx.user # NULL
    /\ auth_ctx' = [auth_ctx EXCEPT !.user = NULL, !.role = NULL]
    /\ UNCHANGED <<code_stamps, updates, code_form, page, removal, appdata,
                   signups, auth_users, profiles, user_roles, access_codes,
                   calls, last, nrequests>>

\* ---------------------------------------------------------------- handleSave

\* handleSave sends an update of one role's code and awaits the answer.  The
\* component with the edit fields sends { code: newCode, updated_at: new
\* Date().toISOString() } and only if (newCode && ...); the component with the
\* three keys sends { code }.  The time of the a-th request sent is a.
UpdateSend(a, caller, _role, _code, stamped) ==
    /\ updates[a].pc = "idle"
    /\ \A b \in Calls : b < a => updates[b].pc # "idle"
    /\ stamped => _code # ""
    /\ updates' = [updates EXCEPT
                      ![a] = [IdleUpdate EXCEPT
                                 !.pc = "sent", !.caller = caller, !.role = _role,
                                 !.code = _code, !.stamped = stamped,
                                 !.overlap = \E b \in Calls : updates[b].pc = "sent"]]
    /\ UNCHANGED <<code_stamps, code_form, auth_ctx, page, removal, appdata, signups,
                   auth_users, profiles, user_roles, access_codes, calls, last,
                   nrequests>>

\* The statement under optimistic versioning: it applies only to a row that
\* nobody has updated yet
UpdateApply_FirstWriteWins(a) ==
    /\ updates[a].pc = "sent"
    /\ LET targets == {row \in access_codes :
                          /\ row.role = updates[a].role
                          /\ row.code = SeedCode(row.role)
                          /\ AccessCodesUpdateUsing(updates[a].caller, row)
                          /\ AccessCodesSelectUsing(updates[a].caller, row)}
       IN /\ access_codes' = (access_codes \ targets) \cup
                                 {[row EXCEPT !.code = updates[a].code] :
                                     row \in targets}
          /\ code_stamps' = IF targets # {} /\ updates[a].stamped
                            THEN [code_stamps EXCEPT
                                     ![updates[a].role].updated_at = a]
                            ELSE code_stamps
    /\ updates' = [updates EXCEPT ![a].pc = "done", ![a].error = NULL]
    /\ UNCHANGED <<code_form, auth_ctx, page, removal, appdata, signups, auth_users,
                   profiles, user_roles, calls, last, nrequests>>

\* The database runs the statement UPDATE access_codes SET code = ... [,
\* updated_at = ...] WHERE role = ... under the policies; no column of the
\* payload is updated_by, and no trigger or default touches the row on update.
\* code has no constraint but NOT NULL, so the statement raises no error.
UpdateApply(a) ==
    /\ updates[a].pc = "sent"
    /\ LET targets == {row \in access_codes :
                          /\ row.role = updates[a].role
                          /\ AccessCodesUpdateUsing(updates[a].caller, row)
                          /\ AccessCodesSelectUsing(updates[a].caller, row)}
       IN /\ access_codes' = (access_codes \ targets) \cup
                                 {[row EXCEPT !.code = updates[a].code] :
                                     row \in targets}
          /\ code_stamps' = IF targets # {} /\ updates[a].stamped
                            THEN [code_stamps EXCEPT
                                     ![updates[a].role].updated_at = a]
                            ELSE code_stamps
    /\ updates' = [updates EXCEPT ![a].pc = "done", ![a].error = NULL]
    /\ UNCHANGED <<code_form, auth_ctx, page, removal, appdata, signups, auth_users,
                   profiles, user_roles, calls, last, nrequests>>

\* fetchKeys of the component with the three keys, run on mount in the session
\* of the caller: supabase.from('access_codes').select('*').  On an error the
\* keys stay as they are; else every key starts from '' and takes the code of
\* the row of its role, if the policies return one.
FetchKeys(caller, failed) ==
    /\ code_form.pc = "loading"
    /\ LET data == {row \in access_codes : AccessCodesSelectUsing(caller, row)}
           newKeys == [r \in app_role |->
                          IF \E row \in data : row.role = r
                          THEN (CHOOSE row \in data : row.role = r).code
                          ELSE ""]
       IN code_form' = [code_form EXCEPT
                           !.pc = "ready", !.user = caller,
                           !.keys = IF failed THEN code_form.keys ELSE newKeys]
    /\ UNCHANGED <<code_stamps, updates, auth_ctx, page, removal, appdata, signups,
                   auth_users, profiles, user_roles, access_codes, calls, last,
                   nrequests>>

\* onChange of a field: setKeys({ ...keys, [role]: e.target.value })
EditKey(_role, _code) ==
    /\ code_form.pc = "ready"
    /\ code_form' = [code_form EXCEPT !.keys[_role] = _code]
    /\ UNCHANGED <<code_stamps, updates, auth_ctx, page, removal, appdata, signups,
                   auth_users, profiles, user_roles, access_codes, calls, last,
                   nrequests>>

\* handleSave of that component: setSaving(true) and the list of the three
\* updates, taken from the keys as they are, empty or not
SaveStart ==
    /\ code_form.pc = "ready"
    /\ code_form' = [code_form EXCEPT !.pc = "saving", !.step = 1]
    /\ UNCHANGED <<code_stamps, updates, auth_ctx, page, removal, appdata, signups,
                   auth_users, profiles, user_roles, access_codes, calls, last,
                   nrequests>>

\* for (const update of updates) await supabase.from('access_codes')
\* .update({ code: update.code }).eq('role', update.role); after the last one
\* setSaving(false)
SaveUpdate ==
    /\ code_form.pc = "saving"
    /\ LET _role == SaveOrder[code_form.step]
           targets == {row \in access_codes :
                          /\ row.role = _role
                          /\ AccessCodesUpdateUsing(code_form.user, row)
                          /\ AccessCodesSelectUsing(code_form.user, row)}
       IN access_codes' = (access_codes \ targets) \cup
                              {[row EXCEPT !.code = code_form.keys[_role]] :
                                  row \in targets}
    /\ code_form' = IF code_form.step < Len(SaveOrder)
                    THEN [code_form EXCEPT !.step = code_form.step + 1]
                    ELSE [code_form EXCEPT !.pc = "ready", !.step = 0]
    /\ UNCHANGED <<code_stamps, updates, auth_ctx, page, removal, appdata, signups,
                   auth_users, profiles, user_roles, calls, last, nrequests>>

\* handleDeleteUser up to its first await: the user confirmed, and
\* supabase.from('user_roles').delete().eq('user_id', userId) is applied under
\* the policies of the caller.  The handler does not read the result.
handleDeleteUser(caller, userId) ==
    /\ removal.pc \in {"idle", "done"}
    /\ LET targets == {row \in RowsOf(userId) :
                          /\ UserRolesDeleteUsing(caller, row)
                          /\ UserRolesSelectUsing(caller, row)}
       IN user_roles' = user_roles \ targets
    /\ removal' = [pc |-> "roles", caller |-> caller, user_id |-> userId,
                   toast |-> NULL]
    /\ UNCHANGED <<code_stamps, updates, code_form, auth_ctx, page, appdata,
                   signups, auth_users, profiles, access_codes, calls, last,
                   nrequests>>

\* The rest of handleDeleteUser: supabase.from('profiles').delete()
\* .eq('user_id', userId), then the toast chosen by its error.  A request that
\* does not reach the database deletes nothing and returns an error; a
\* statement that row-level security leaves without rows returns none.
handleDeleteUserProfile(failed) ==
    /\ removal.pc = "roles"
    /\ LET targets == {row \in profiles :
                          /\ row.user_id = removal.user_id
                          /\ ProfilesDeleteUsing(removal.caller, row)
                          /\ ProfilesSelectUsing(removal.caller, row)}
       IN profiles' = IF failed THEN profiles ELSE profiles \ targets
    /\ removal' = [removal EXCEPT
                      !.pc = "done",
                      !.toast = IF failed THEN "Falha ao excluir usuário."
                                ELSE "Usuário excluído."]
    /\ UNCHANGED <<code_stamps, updates, code_form, auth_ctx, page, appdata,
                   signups, auth_users, user_roles, access_codes, calls, last,
                   nrequests>>

\* ---------------------------------------------------------------- requests of the event page

\* handleToggleCheckIn: supabase.from('guests').update({ checked_in, checkin_time })
\* .eq('id', guest.id)
UpdateGuestCheckIn(caller, _id, _checked_in) ==
    LET targets == {row \in guests :
                       /\ row.id = _id
                       /\ GuestsUpdateUsing(caller, row)
                       /\ GuestsSelectUsing(caller, row)}
    IN /\ guests' = (guests \ targets) \cup
                       {[row EXCEPT !.checked_in = _checked_in,
                                    !.checkin_time = IF _checked_in THEN Now ELSE NULL] :
                           row \in targets}
       /\ last' = Request("update_guests_checkin", caller, NULL, "ok", {})
       /\ Send
       /\ UNCHANGED <<ui, events, activity_logs, signups, auth_users, profiles,
                      user_roles, access_codes, calls>>

\* handleSaveEdit: supabase.from('guests').update({ name, company, role })
\* .eq('id', guestToEdit.id)
UpdateGuest(caller, _id, form) ==
    LET targets == {row \in guests :
                       /\ row.id = _id
                       /\ GuestsUpdateUsing(caller, row)
                       /\ GuestsSelectUsing(caller, row)}
    IN /\ guests' = (guests \ targets) \cup
                       {[row EXCEPT !.name = form.name, !.company = form.company,
                                    !.role = form.role] : row \in targets}
       /\ last' = Request("update_guests", caller, NULL, "ok", {})
       /\ Send
       /\ UNCHANGED <<ui, events, activity_logs, signups, auth_users, profiles,
                      user_roles, access_codes, calls>>

\* handleDeleteGuest without its canDeleteGuests guard:
\* supabase.from('guests').delete().eq('id', guest.id)
DeleteGuest(caller, _id) ==
    LET targets == {row \in guests :
                       /\ row.id = _id
                       /\ GuestsDeleteUsing(caller, row)
                       /\ GuestsSelectUsing(caller, row)}
    IN /\ guests' = guests \ targets
       /\ last' = Request("delete_guests", caller, NULL, "ok", {})
       /\ Send
       /\ UNCHANGED <<ui, events, activity_logs, signups, auth_users, profiles,
                      user_roles, access_codes, calls>>

\* handleAddGuest: supabase.from('guests').insert({ event_id, name, company, role });
\* the id is a fresh uuid, event_id REFERENCES events(id)
InsertGuest(caller, _event_id, form) ==
    /\ \E _id \in GuestIds :
          /\ \A row \in guests : row.id # _id
          /\ LET row == [id |-> _id, event_id |-> _event_id, name |-> form.name,
                         company |-> form.company, role |-> form.role,
                         checked_in |-> FALSE, checkin_time |-> NULL]
                 status == IF ~GuestsInsertCheck(caller, row) THEN "rls_violation"
                           ELSE IF \A e \in events : e.id # _event_id
                           THEN "fk_violation"
                           ELSE "ok"
             IN /\ guests' = IF status = "ok" THEN guests \cup {row} ELSE guests
                /\ last' = Request("insert_guests", caller, NULL, status, {})
    /\ Send
    /\ UNCHANGED <<ui, events, activity_logs, signups, auth_users, profiles,
                   user_roles, access_codes, calls>>

\* fetchActivityLogs without its canAccessHistory guard:
\* supabase.from('activity_logs').select('*').eq('event_id', id)
SelectActivityLogs(caller, _event_id) ==
    /\ last' = Request("select_activity_logs", caller, NULL, "ok",
                       {row \in activity_logs :
                           /\ row.event_id = _event_id
                           /\ ActivityLogsSelectUsing(caller, row)})
    /\ Send
    /\ UNCHANGED <<ui, appdata, signups, auth_users, profiles, user_roles,
                   access_codes, calls>>

\* logActivity: supabase.from('activity_logs').insert({ event_id, user_id, action })
InsertActivityLog(caller, _event_id, _action) ==
    LET row == [event_id |-> _event_id, user_id |-> caller, action |-> _action]
        status == IF ~ActivityLogsInsertCheck(caller, row) THEN "rls_violation"
                  ELSE "ok"
    IN /\ activity_logs' = IF status = "ok" THEN activity_logs \cup {row}
                           ELSE activity_logs
       /\ last' = Request("insert_activity_logs", caller, NULL, status, {})
       /\ Send
       /\ UNCHANGED <<ui, events, guests, signups, auth_users, profiles, user_roles,
                      access_codes, calls>>

\* ---------------------------------------------------------------- event page

\* supabase.from('guests').select('*').eq('event_id', id) as the policies answer
\* it to a caller
GuestsOf(caller, _event_id) ==
    {row \in guests : row.event_id = _event_id /\ GuestsSelectUsing(caller, row)}

\* The page of an event is opened in the session of caller; its effect calls
\* fetchGuests, whose select is answered
MountPage(caller, _event_id) ==
    /\ page.user = NULL
    /\ page' = [page EXCEPT !.user = caller,
                            !.fetched = @ \cup {GuestsOf(caller, _event_id)}]
    /\ UNCHANGED <<code_stamps, updates, code_form, auth_ctx, removal, appdata,
                   signups, auth_users, profiles, user_roles, access_codes,
                   calls, last, nrequests>>

\* fetchGuests up to its await, called by the postgres_changes subscription:
\* the select is answered with the rows the table holds then
fetchGuests(_event_id) ==
    /\ page.user # NULL
    /\ page' = [page EXCEPT !.fetched = @ \cup {GuestsOf(page.user, _event_id)}]
    /\ UNCHANGED <<code_stamps, updates, code_form, auth_ctx, removal, appdata,
                   signups, auth_users, profiles, user_roles, access_codes,
                   calls, last, nrequests>>

\* fetchGuests after its await: if (!error) setGuests(data || [])
fetchGuestsResolved(data) ==
    /\ data \in page.fetched
    /\ page' = [page EXCEPT !.guests = data, !.fetched = @ \ {data}]
    /\ UNCHANGED <<code_stamps, updates, code_form, auth_ctx, removal, appdata,
                   signups, auth_users, profiles, user_roles, access_codes,
                   calls, last, nrequests>>

\* setGuests(prev => prev.map(g => g.id === id ? { ...g, checked_in,
\* checkin_time } : g))
SetCheckIn(list, _id, _checked_in, _checkin_time) ==
    {IF g.id = _id
     THEN [g EXCEPT !.checked_in = _checked_in, !.checkin_time = _checkin_time]
     ELSE g : g \in list}

\* handleToggleCheckIn up to its await, for a guest as the list shows it: the
\* optimistic setGuests, and the update is sent
handleToggleCheckIn(t, guest) ==
    /\ page.toggles[t].pc = "idle"
    /\ \A d \in Calls : d < t => page.toggles[d].pc # "idle"
    /\ guest \in page.guests
    /\ LET newCheckedIn == ~guest.checked_in
           checkinTime == IF newCheckedIn THEN Now ELSE NULL
       IN page' = [page EXCEPT
                      !.guests = SetCheckIn(@, guest.id, newCheckedIn, checkinTime),
                      !.toggles[t] = [pc |-> "sent", id |-> guest.id,
                                      checked_in |-> guest.checked_in,
                                      checkin_time |-> guest.checkin_time]]
    /\ UNCHANGED <<code_stamps, updates, code_form, auth_ctx, removal, appdata,
                   signups, auth_users, profiles, user_roles, access_codes,
                   calls, last, nrequests>>

\* handleToggleCheckIn after its await.  With an error (the request did not
\* reach the table) the list entry is set back to the values of the argument
\* guest; without one the table holds the update and logActivity inserts its
\* line.
handleToggleCheckInResolved(t, failed) ==
    /\ page.toggles[t].pc = "sent"
    /\ LET call == page.toggles[t]
           newCheckedIn == ~call.checked_in
           checkinTime == IF newCheckedIn THEN Now ELSE NULL
           targets == {row \in guests :
                          /\ row.id = call.id
                          /\ GuestsUpdateUsing(page.user, row)
                          /\ GuestsSelectUsing(page.user, row)}
           line == [event_id |-> "e1", user_id |-> page.user,
                    action |-> IF newCheckedIn THEN "Check-in" ELSE "Check-out"]
       IN IF failed
          THEN /\ page' = [page EXCEPT
                              !.guests = SetCheckIn(@, call.id, call.checked_in,
                                                    call.checkin_time),
                              !.toggles[t].pc = "failed"]
               /\ UNCHANGED <<guests, activity_logs>>
          ELSE /\ page' = [page EXCEPT !.toggles[t].pc = "done"]
               /\ guests' = (guests \ targets) \cup
                                {[row EXCEPT !.checked_in = newCheckedIn,
                                             !.checkin_time = checkinTime] :
                                    row \in targets}
               /\ activity_logs' =
                     IF ActivityLogsInsertCheck(page.user, line)
                     THEN activity_logs \cup {line} ELSE activity_logs
    /\ UNCHANGED <<code_stamps, updates, code_form, auth_ctx, removal, events,
                   signups, auth_users, profiles, user_roles, access_codes,
                   calls, last, nrequests>>

\* ---------------------------------------------------------------- specification

Next ==
    \/ BootstrapAdminGrant
    \/ \E c \in Calls, u \in UserIds, code \in SubmittedCodes : AssignLookup(c, u, code)
    \/ \E c \in Calls : AssignCheck(c)
    \/ \E c \in Calls : AssignInsert(c)
    \/ \E caller \in Callers, u \in UserIds, r \in app_role : InsertUserRole(caller, u, r)
    \/ \E caller \in Callers, u \in Users, r \in app_role : UpdateUserRole(caller, u, r)
    \/ \E caller \in Callers, u \in Users : DeleteUserRoles(caller, u)
    \/ \E caller \in Callers : SelectAccessCodes(caller)
    \/ \E caller \in Callers, r \in app_role, code \in NewCodes :
          UpdateAccessCode(caller, r, code)

Spec == Init /\ [][Next]_vars

\* The access-code store under every statement a client can send to it
NextCodes ==
    \/ BootstrapAdminGrant
    \/ \E c \in Calls, u \in Users, code \in SubmittedCodes : AssignLookup(c, u, code)
    \/ \E c \in Calls : AssignCheck(c)
    \/ \E c \in Calls : AssignInsert(c)
    \/ \E caller \in Callers, r \in app_role, code \in NewCodes :
          UpdateAccessCode(caller, r, code)
    \/ \E caller \in Callers, r \in app_role, code \in NewCodes :
          InsertAccessCode(caller, r, code)
    \/ \E caller \in Callers, r \in app_role : DeleteAccessCodes(caller, r)
    \/ \E caller \in Callers, r \in app_role, n \in app_role :
          UpdateAccessCodeRole(caller, r, n)

SpecCodes == Init /\ [][NextCodes]_vars

\* Only the bootstrap admin has an identity; everybody else is still to sign up
InitSignUp ==
    /\ auth_users = Founders
    /\ profiles = {[user_id |-> u, email |-> Email(u)] : u \in Founders}
    /\ user_roles = {}
    /\ access_codes = SeedCodes
    /\ calls = [c \in Calls |-> IdleCall]
    /\ last = NoRequest
    /\ nrequests = 0
    /\ signups = [c \in Calls |-> IdleSignUp]
    /\ InitUi
    /\ events = {}
    /\ guests = {}
    /\ activity_logs = {}

\* Signup forms submitted one after the other, by either version of the hook
NextSignUp ==
    \/ BootstrapAdminGrant
    \/ \E s \in Calls, u \in Users, code \in SubmittedCodes : SignUpAuth(s, u, code)
    \/ \E s \in Calls : SignUpRpc(s)
    \/ \E s \in Calls : AssignCheck(s)
    \/ \E s \in Calls : AssignInsert(s)
    \/ \E s \in Calls : SignUpReturn(s)
    \/ \E s \in Calls, caller \in Callers, u \in Users, code \in SubmittedCodes :
          OldSignUpValidate(s, caller, u, code)
    \/ \E s \in Calls : OldSignUpAuth(s)
    \/ \E s \in Calls : OldSignUpInsert(s)

SpecSignUp == InitSignUp /\ [][NextSignUp]_vars

\* Two browsers with the access-code page open, while roles are assigned
NextUpdates ==
    \/ BootstrapAdminGrant
    \/ \E u \in Users, code \in SubmittedCodes : AssignLookup(1, u, code)
    \/ AssignCheck(1)
    \/ AssignInsert(1)
    \/ \E a \in Calls, caller \in Users, r \in app_role, code \in FormCodes,
          stamped \in BOOLEAN : UpdateSend(a, caller, r, code, stamped)
    \/ \E a \in Calls : UpdateApply(a)

SpecUpdates == Init /\ [][NextUpdates]_vars

\* The access-code page with the three keys, opened once, and a signup
NextKeys ==
    \/ BootstrapAdminGrant
    \/ \E u \in Users, code \in SubmittedCodes \cup TypedKeys :
          AssignLookup(1, u, code)
    \/ AssignCheck(1)
    \/ AssignInsert(1)
    \/ \E caller \in Callers, failed \in BOOLEAN : FetchKeys(caller, failed)
    \/ \E r \in app_role, code \in TypedKeys : EditKey(r, code)
    \/ SaveStart
    \/ SaveUpdate

SpecKeys == Init /\ [][NextKeys]_vars

\* The user list of the admin page and a signup
NextRemoval ==
    \/ BootstrapAdminGrant
    \/ \E u \in Users, code \in SubmittedCodes : AssignLookup(1, u, code)
    \/ AssignCheck(1)
    \/ AssignInsert(1)
    \/ \E caller \in Users, userId \in Users : handleDeleteUser(caller, userId)
    \/ \E failed \in BOOLEAN : handleDeleteUserProfile(failed)

SpecRemoval == Init /\ [][NextRemoval]_vars

\* The role store under rpc calls of the sessions
NextRpc ==
    \/ BootstrapAdminGrant
    \/ \E caller \in Callers, u \in UserIds, code \in SubmittedCodes :
          RpcAssignRoleWithCode(caller, u, code)
    \/ \E caller \in Callers, u \in Users : DeleteUserRoles(caller, u)
    \/ \E caller \in Callers, u \in Users : RpcGetUserRole(caller, u)

SpecRpc == Init /\ [][NextRpc]_vars

\* One browser's AuthProvider over the role store
NextAuth ==
    \/ BootstrapAdminGrant
    \/ \E u \in Users, code \in SubmittedCodes : AssignLookup(1, u, code)
    \/ AssignCheck(1)
    \/ AssignInsert(1)
    \/ \E u \in Users : AuthStateSignedIn(u)
    \/ \E f \in auth_ctx.fetching : fetchUserRole(f)
    \/ \E f \in auth_ctx.fetching : fetchUserRoleResolved(f)
    \/ signOut

SpecAuth == Init /\ [][NextAuth]_vars

\* One browser's event page, the only client that writes to the table
NextPage ==
    \/ \E caller \in Users, e \in EventIds : MountPage(caller, e)
    \/ \E e \in EventIds : fetchGuests(e)
    \/ \E data \in page.fetched : fetchGuestsResolved(data)
    \/ \E t \in Calls, guest \in page.guests : handleToggleCheckIn(t, guest)
    \/ \E t \in Calls, failed \in BOOLEAN : handleToggleCheckInResolved(t, failed)

SpecPage == InitData /\ [][NextPage]_vars

\* The role store under the reads a client can make of it
NextReads ==
    \/ BootstrapAdminGrant
    \/ \E c \in Calls, u \in Users, code \in SubmittedCodes : AssignLookup(c, u, code)
    \/ \E c \in Calls : AssignCheck(c)
    \/ \E c \in Calls : AssignInsert(c)
    \/ \E caller \in Callers, u \in Users : DeleteUserRoles(caller, u)
    \/ \E caller \in Callers, u \in Users : SelectUserRoles(caller, u)
    \/ \E caller \in Callers, u \in Users, r \in app_role : RpcHasRole(caller, u, r)
    \/ \E caller \in Callers, u \in Users : RpcGetUserRole(caller, u)

SpecReads == Init /\ [][NextReads]_vars

\* The event page's tables under the requests of callers whose roles are
\* assigned and deleted meanwhile
NextData ==
    \/ BootstrapAdminGrant
    \/ \E c \in Calls, u \in Users, code \in SubmittedCodes : AssignLookup(c, u, code)
    \/ \E c \in Calls : AssignCheck(c)
    \/ \E c \in Calls : AssignInsert(c)
    \/ \E caller \in Callers, u \in Users : DeleteUserRoles(caller, u)
    \/ \E caller \in Callers, g \in GuestIds, b \in BOOLEAN :
          UpdateGuestCheckIn(caller, g, b)
    \/ \E caller \in Callers, g \in GuestIds, form \in EditForms :
          UpdateGuest(caller, g, form)
    \/ \E caller \in Callers, g \in GuestIds : DeleteGuest(caller, g)
    \/ \E caller \in Callers, e \in EventIds, form \in EditForms :
          InsertGuest(caller, e, form)
    \/ \E caller \in Callers, e \in EventIds : SelectActivityLogs(caller, e)
    \/ \E caller \in Callers, e \in EventIds, a \in LogActions :
          InsertActivityLog(caller, e, a)

SpecData == InitData /\ [][NextData]_vars

\* ---------------------------------------------------------------- claims

\* The caller has a user_roles row with role admin
HoldsAdmin(caller) == [user_id |-> caller, role |-> "admin"] \in user_roles

\* Two calls ran at the same time: one was between its first and its last
\* statement when the other began
Overlapped(c, d) == d \in calls[c].overlap \/ c \in calls[d].overlap

\* C1: in every reachable state user_roles holds at most one row per user_id,
\* whatever the role.
C1_AtMostOneRowPerUser ==
    \A u \in UserIds : Cardinality(RowsOf(u)) <= 1

\* C2: of two concurrent assign_role_with_code calls with the same _user_id, at
\* most one returns a role and inserts a row (the claim adds that the other one
\* fails as already assigned).
C2_AtMostOneConcurrentCallSucceeds ==
    \A c \in Calls, d \in Calls :
        (/\ c # d
         /\ Overlapped(c, d)
         /\ calls[c].user_id = calls[d].user_id
         /\ calls[c].pc = "ret_role")
        => calls[d].pc # "ret_role"

\* C3: when assign_role_with_code returns a role, exactly one user_roles row
\* exists for that user afterwards, and its role is the returned role, which is
\* the role the submitted code matched when the call looked it up.
C3_SuccessLeavesExactlyOneMatchingRow ==
    [][/\ \A c \in Calls :
             (calls[c].pc = "insert" /\ calls'[c].pc = "ret_role")
             => /\ RowsIn(user_roles', calls[c].user_id) =
                      {[user_id |-> calls[c].user_id, role |-> calls'[c].ret]}
                /\ calls'[c].ret = calls[c].role
       /\ \A c \in Calls, u \in UserIds, code \in SubmittedCodes :
             (AssignLookup(c, u, code) /\ calls'[c].pc = "check")
             => [role |-> calls'[c].role, code |-> code] \in access_codes
      ]_vars

\* C4: a call whose code equals the code of no access_codes row returns NULL
\* through the invalid-code branch and leaves user_roles as it was; a call that
\* ended there never inserts.
C4_InvalidCodeInsertsNothing ==
    [][/\ \A c \in Calls, u \in UserIds, code \in SubmittedCodes :
             (/\ AssignLookup(c, u, code)
              /\ ~ \E row \in access_codes : row.code = code)
             => /\ calls'[c].pc = "ret_invalid"
                /\ calls'[c].ret = NULL
                /\ user_roles' = user_roles
       /\ \A c \in Calls :
             calls[c].pc = "ret_invalid" => calls'[c] = calls[c]
      ]_vars

C4_Witness ==
    \E c \in Calls :
        /\ calls[c].pc = "ret_invalid"
        /\ calls[c].user_id \in Users
        /\ RowsOf(calls[c].user_id) = {}

\* C5: when the user already has a row, a call with a valid code fails as already
\* assigned, which the caller is told apart from an invalid code, and user_roles is
\* unchanged: exactly one row for that user.
C5_AlreadyAssignedIsDistinctFailure ==
    [][\A c \in Calls :
          (/\ calls[c].pc = "check"
           /\ RowsOf(calls[c].user_id) # {}
           /\ calls'[c] # calls[c])
          => /\ calls'[c].pc = "ret_assigned"
             /\ user_roles' = user_roles
             /\ Cardinality(RowsOf(calls[c].user_id)) = 1
             /\ calls'[c].ret # [calls'[c] EXCEPT !.pc = "ret_invalid"].ret
             /\ SignUpError(calls'[c]) #
                   SignUpError([calls'[c] EXCEPT !.pc = "ret_invalid"])
      ]_vars

\* C6: a direct INSERT into user_roles is rejected for every caller and payload and
\* leaves user_roles unchanged; rows are created only inside
\* assign_role_with_code or by the bootstrap grant.
C6_DirectInsertRejected ==
    [][/\ \A caller \in Callers, u \in UserIds, r \in app_role :
             InsertUserRole(caller, u, r)
             => user_roles' = user_roles /\ last'.status = "rls_violation"
       /\ ~ (user_roles' \subseteq user_roles)
             => BootstrapAdminGrant \/ \E c \in Calls : AssignInsert(c)
      ]_vars

C6_Witness ==
    /\ last.op = "insert_user_roles"
    /\ last.status = "rls_violation"
    /\ HoldsAdmin(last.caller)

\* C7: a read of access_codes returns no row to a caller that does not hold the
\* admin role, and every row to a caller that holds it.
C7_OnlyAdminsReadAccessCodes ==
    [][\A caller \in Callers :
          SelectAccessCodes(caller)
          => last'.rows = IF HoldsAdmin(caller) THEN access_codes ELSE {}
      ]_vars

C7_Witness ==
    /\ last.op = "select_access_codes"
    /\ last.rows = {}
    /\ [user_id |-> last.caller, role |-> "equipe"] \in user_roles
    /\ ~ HoldsAdmin(last.caller)

\* C8 as claimed: while user_roles holds no admin row, only the bootstrap grant
\* creates one.
C8_FirstAdminOnlyFromBootstrap ==
    [][(/\ ~ \E row \in user_roles : row.role = "admin"
        /\ \E row \in user_roles' : row.role = "admin")
       => BootstrapAdminGrant
      ]_vars

\* C8 as amended: an admin row is created only by the bootstrap grant or by an
\* assign_role_with_code call whose submitted code was the code stored for the
\* admin role when the call looked it up.
C8_AdminOnlyByBootstrapOrAdminCode ==
    [][/\ (\E row \in user_roles' \ user_roles : row.role = "admin")
             => \/ BootstrapAdminGrant
                \/ \E c \in Calls : AssignInsert(c) /\ calls[c].role = "admin"
       /\ \A c \in Calls, u \in UserIds, code \in SubmittedCodes :
             (AssignLookup(c, u, code) /\ calls'[c].role = "admin")
             => [role |-> "admin", code |-> code] \in access_codes
      ]_vars

C8_Witness ==
    \E c \in Calls :
        /\ calls[c].pc = "ret_role"
        /\ calls[c].ret = "admin"
        /\ Email(calls[c].user_id) \notin BootstrapEmails
        /\ HoldsAdmin(calls[c].user_id)

\* C9: while a user has a role row the role does not change: a user's role differs
\* from an earlier one only after a deletion and a new assignment.
C9_RoleChangesOnlyAfterDeletion ==
    [][\A u \in Users :
          (RowsOf(u) # {} /\ RowsIn(user_roles', u) # {})
          => {row.role : row \in RowsIn(user_roles', u)} =
                {row.role : row \in RowsOf(u)}
      ]_vars

\* C10: a DELETE on user_roles issued by a caller that does not hold the admin
\* role leaves user_roles unchanged, and rows leave user_roles only in a DELETE
\* issued by a caller that holds it.
C10_OnlyAdminsDeleteRoles ==
    [][/\ \A caller \in Callers, u \in Users :
             (DeleteUserRoles(caller, u) /\ ~ HoldsAdmin(caller))
             => user_roles' = user_roles
       /\ ~ (user_roles \subseteq user_roles')
             => \E caller \in Callers, u \in Users :
                   HoldsAdmin(caller) /\ DeleteUserRoles(caller, u)
      ]_vars

C10_Witness ==
    /\ last.op = "delete_user_roles"
    /\ last.caller = last.user_id
    /\ RowsOf(last.caller) # {}
    /\ ~ HoldsAdmin(last.caller)

\* C12: in every reachable state access_codes holds exactly one row for each of
\* the roles admin, equipe and recepcao, whatever inserts, deletes and updates the
\* callers (admins included) have sent.
C12_ExactlyOneCodeRowPerRole ==
    \A r \in app_role : Cardinality({row \in access_codes : row.role = r}) = 1

C12_Witness ==
    /\ last.op \in {"delete_access_codes", "insert_access_codes",
                    "update_access_codes_role"}
    /\ HoldsAdmin(last.caller)
    /\ access_codes # SeedCodes

\* C13: an update of access_codes sent by a caller that does not hold the admin
\* role changes nothing, and a stored code changes only in an update sent by a
\* caller that holds it.
C13_OnlyAdminsChangeCodes ==
    [][/\ \A caller \in Callers, r \in app_role, code \in NewCodes :
             (UpdateAccessCode(caller, r, code) /\ ~ HoldsAdmin(caller))
             => access_codes' = access_codes
       /\ access_codes' # access_codes
             => \E caller \in Callers, r \in app_role, code \in NewCodes :
                   HoldsAdmin(caller) /\ UpdateAccessCode(caller, r, code)
      ]_vars

C13_Witness ==
    /\ last.op = "update_access_codes"
    /\ [user_id |-> last.caller, role |-> "equipe"] \in user_roles
    /\ ~ HoldsAdmin(last.caller)
    /\ access_codes = SeedCodes

\* C14: once a role's stored code is no longer its seeded code OLD (an admin
\* rotated it to NEW), a call that submits OLD, when OLD is the code of no role,
\* ends as invalid code and inserts nothing, and a call that submits NEW resolves
\* to exactly the rotated role.
C14_RotatedCodeAssignsItsRole ==
    [][\A c \in Calls, u \in Users, row \in access_codes :
          row.code # SeedCode(row.role)
          => /\ (/\ AssignLookup(c, u, SeedCode(row.role))
                 /\ ~ \E other \in access_codes : other.code = SeedCode(row.role))
                => calls'[c].pc = "ret_invalid" /\ user_roles' = user_roles
             /\ AssignLookup(c, u, row.code)
                => calls'[c].pc = "check" /\ calls'[c].role = row.role
      ]_vars

\* An assign_role_with_code call gave the user a role and the user has no row
\* now: the row has been deleted and no assignment has followed
Revoked(u) ==
    /\ RowsOf(u) = {}
    /\ \E c \in Calls : calls[c].pc = "ret_role" /\ calls[c].user_id = u

\* C11: from the deletion of a user's row until a new assignment, get_user_role
\* returns no role for the user, has_role is false for every role, and every
\* role-gated request of the user (reading or updating access codes, deleting
\* roles, reading logs, updating and deleting guests) is denied.
C11_RevokedUserIsDenied ==
    [][\A u \in Users :
          Revoked(u)
          => /\ get_user_role(u) = {NULL}
             /\ \A r \in app_role : ~ has_role(u, r)
             /\ SelectAccessCodes(u) => last'.rows = {}
             /\ (\E r \in app_role, code \in NewCodes : UpdateAccessCode(u, r, code))
                   => access_codes' = access_codes
             /\ (\E v \in Users : DeleteUserRoles(u, v)) => user_roles' = user_roles
             /\ (\E e \in EventIds : SelectActivityLogs(u, e)) => last'.rows = {}
             /\ (\/ \E g \in GuestIds, b \in BOOLEAN : UpdateGuestCheckIn(u, g, b)
                 \/ \E g \in GuestIds, form \in EditForms : UpdateGuest(u, g, form)
                 \/ \E g \in GuestIds : DeleteGuest(u, g))
                   => guests' = guests
      ]_vars

\* Submission s, for an e-mail address, comes after a submission for the same
\* address that returned the invalid-code error
IsRetry(s, email) ==
    \E t \in Calls :
        /\ t < s
        /\ signups[t].pc = "done"
        /\ signups[t].error = InvalidCode
        /\ signups[t].email = email

\* C15: a signup of a person who had no identity, submitted again with the same
\* e-mail address and a correct code after a signup that failed with the
\* invalid-code error, returns without error and leaves a user_roles row with the
\* role of that code.
C15_InvalidCodeIsRetryable ==
    [][\A s \in Calls :
          (/\ signups'[s].pc = "done"
           /\ signups'[s] # signups[s]
           /\ signups'[s].email \in {Email(u) : u \in Users \ Founders}
           /\ IsRetry(s, signups'[s].email)
           /\ MatchingRoles(signups'[s].code) # {})
          => /\ signups'[s].error = NULL
             /\ \E row \in user_roles' :
                   /\ Email(row.user_id) = signups'[s].email
                   /\ row.role \in MatchingRoles(signups'[s].code)
      ]_vars

\* C16: signUp returns error = null only if user_roles holds a row of the new
\* user when it returns.
C16_SuccessOnlyWithRoleRow ==
    [][\A s \in Calls :
          (/\ signups[s].pc # "done"
           /\ signups'[s].pc = "done"
           /\ signups'[s].error = NULL)
          => RowsIn(user_roles', signups'[s].user_id) # {}
      ]_vars

\* The user_roles rows of a user that the SELECT policies show to a caller
VisibleRowsOf(caller, u) ==
    {row \in RowsOf(u) : UserRolesSelectUsing(caller, row)}

\* C17: a read of user_roles returns every row of the user asked for to an admin
\* and only the caller's own rows to any other caller, and what has_role and
\* get_user_role answer to a caller is what the rows the caller can read say: to
\* a caller that is not an admin they tell nothing about another user.
C17_NonAdminLearnsOnlyOwnRole ==
    [][\A caller \in Callers, u \in Users :
          /\ SelectUserRoles(caller, u)
                => last'.rows = IF HoldsAdmin(caller) \/ caller = u
                                THEN RowsOf(u) ELSE {}
          /\ \A r \in app_role :
                RpcHasRole(caller, u, r)
                => last'.rows =
                      {[result |-> \E row \in VisibleRowsOf(caller, u) : row.role = r]}
          /\ RpcGetUserRole(caller, u)
                => \E row \in VisibleRowsOf(caller, u) \cup {[role |-> NULL]} :
                      /\ last'.rows = {[result |-> row.role]}
                      /\ row.role = NULL => VisibleRowsOf(caller, u) = {}
      ]_vars

\* C18: a DELETE on guests sent by a caller that does not hold the admin role
\* removes nothing.
C18_OnlyAdminsDeleteGuests ==
    [][\A caller \in Callers, g \in GuestIds :
          (DeleteGuest(caller, g) /\ ~ HoldsAdmin(caller))
          => guests' = guests
      ]_vars

\* C19: an UPDATE of name, company and role of a guest sent by a caller whose
\* role is recepcao leaves the row unchanged.
C19_RecepcaoChangesOnlyCheckIn ==
    [][\A caller \in Callers, g \in GuestIds, form \in EditForms :
          (/\ UpdateGuest(caller, g, form)
           /\ get_user_role(caller) = {"recepcao"})
          => guests' = guests
      ]_vars

\* C20: a read of activity_logs returns the event's rows to a caller that holds
\* admin or equipe and no row to any other caller.
C20_OnlyAdminAndEquipeReadLogs ==
    [][\A caller \in Callers, e \in EventIds :
          SelectActivityLogs(caller, e)
          => last'.rows =
                IF HoldsAdmin(caller) \/ has_role(caller, "equipe")
                THEN {row \in activity_logs : row.event_id = e}
                ELSE {}
      ]_vars

C20_Witness ==
    /\ last.op = "select_activity_logs"
    /\ last.rows = {}
    /\ get_user_role(last.caller) = {"recepcao"}
    /\ activity_logs # {}

\* The rows of access_codes of one role
CodeRowsIn(table, r) == {row \in table : row.role = r}

\* C21: an update of a role's code by an admin sets the row's code to the new
\* value, its updated_at to the time of the update and its updated_by to the
\* admin.
C21_UpdateOverwritesCodeTimeAuthor ==
    [][\A a \in Calls :
          (UpdateApply(a) /\ HoldsAdmin(updates[a].caller))
          => /\ CodeRowsIn(access_codes', updates[a].role) =
                   {[role |-> updates[a].role, code |-> updates[a].code]}
             /\ code_stamps'[updates[a].role] =
                   [updated_at |-> a, updated_by |-> updates[a].caller]
      ]_vars

\* C23: an update of a role's code by an admin ends without error and leaves
\* exactly one row for the role, holding the code of that update, whatever
\* another admin's update of the same role has written or is about to write,
\* and leaves the other roles' rows alone: the update applied last wins.
C23_LastWriteWins ==
    [][\A a \in Calls :
          (UpdateApply(a) /\ HoldsAdmin(updates[a].caller))
          => /\ updates'[a].error = NULL
             /\ CodeRowsIn(access_codes', updates[a].role) =
                   {[role |-> updates[a].role, code |-> updates[a].code]}
             /\ \A r \in app_role \ {updates[a].role} :
                   CodeRowsIn(access_codes', r) = CodeRowsIn(access_codes, r)
      ]_vars

C23_Witness ==
    /\ updates[1].pc = "done" /\ updates[2].pc = "done"
    /\ updates[2].overlap
    /\ updates[1].role = updates[2].role
    /\ updates[1].code # updates[2].code
    /\ updates[1].caller # updates[2].caller
    /\ HoldsAdmin(updates[1].caller) /\ HoldsAdmin(updates[2].caller)
    /\ [role |-> updates[1].role, code |-> updates[1].code] \in access_codes

\* C24: an update of a role's code to the value an earlier update of the same
\* role wrote leaves access_codes as it was: one row for the role, holding that
\* code.
C24_SameUpdateTwiceIsIdempotent ==
    [][\A a \in Calls, b \in Calls :
          (/\ UpdateApply(a)
           /\ HoldsAdmin(updates[a].caller)
           /\ updates[b].pc = "done"
           /\ updates[b].role = updates[a].role
           /\ updates[b].code = updates[a].code)
          => /\ CodeRowsIn(access_codes', updates[a].role) =
                   {[role |-> updates[a].role, code |-> updates[a].code]}
             /\ [role |-> updates[a].role, code |-> updates[a].code] \in access_codes
                   => access_codes' = access_codes
      ]_vars

C24_Witness ==
    /\ updates[1].pc = "done" /\ updates[2].pc = "done"
    /\ ~ updates[2].overlap
    /\ updates[1].role = updates[2].role
    /\ updates[1].code = updates[2].code
    /\ updates[1].caller = updates[2].caller
    /\ HoldsAdmin(updates[1].caller)
    /\ CodeRowsIn(access_codes, updates[1].role) =
          {[role |-> updates[1].role, code |-> updates[1].code]}

\* C26: in every reachable state no two roles have the same code.
C26_NoTwoRolesShareACode ==
    \A r1 \in access_codes, r2 \in access_codes :
        r1.role # r2.role => r1.code # r2.code

\* C27: every stored access code is non-empty, whatever the form has saved, so
\* that a call with the empty string assigns no role.
C27_CodesStayNonEmpty ==
    [][/\ \A row \in access_codes' : row.code # ""
       /\ \A u \in Users :
             AssignLookup(1, u, "") => calls'[1].pc = "ret_invalid"
      ]_vars

\* C22: when handleDeleteUser, called by an admin for another user, reports
\* that user as deleted, neither a role row nor a profile of the user is left.
C22_DeletedMeansNoRowsLeft ==
    [][(/\ removal.pc = "roles"
        /\ has_role(removal.caller, "admin")
        /\ removal.caller # removal.user_id
        /\ removal'.pc = "done"
        /\ removal'.toast = "Usuário excluído.")
       => /\ RowsIn(user_roles', removal'.user_id) = {}
          /\ \A row \in profiles' : row.user_id # removal'.user_id
      ]_vars

\* C28: has_role(u, r) holds exactly when get_user_role(u) returns r, whichever
\* row its LIMIT 1 picks, and so for at most one role of a user.
C28_HasRoleAgreesWithGetUserRole ==
    \A u \in UserIds :
        /\ \A r \in app_role : has_role(u, r) <=> get_user_role(u) = {r}
        /\ Cardinality({r \in app_role : has_role(u, r)}) <= 1

\* C25: a call of assign_role_with_code creates a role row only for the
\* authenticated caller's own identity; a call with another _user_id, or one
\* made without a session, inserts nothing.
C25_AssignsOnlyToTheCaller ==
    [][(/\ nrequests' = nrequests + 1
        /\ last'.op = "rpc_assign_role_with_code")
       => \A row \in user_roles' \ user_roles :
             last'.caller # Anon /\ row.user_id = last'.caller
      ]_vars

\* C29: while AuthProvider holds no session (signOut has completed, or the
\* auth-state change without a session was handled, and nobody has signed in
\* since), role is null and isAdmin, isEquipe and isRecepcao are false.
C29_NoRoleWhileSignedOut ==
    auth_ctx.user = NULL => auth_ctx.role = NULL

\* C30: when the update of handleToggleCheckIn fails and the handler has
\* finished, with no other toggle still in flight, the list shows for every
\* guest the checked_in and checkin_time the table holds.
C30_FailedToggleRestoresTableValues ==
    [][\A t \in Calls :
          (/\ page.toggles[t].pc = "sent"
           /\ page'.toggles[t].pc = "failed"
           /\ \A d \in Calls : page'.toggles[d].pc # "sent")
          => \A g \in page'.guests :
                \E row \in guests' : /\ row.id = g.id
                                     /\ row.checked_in = g.checked_in
                                     /\ row.checkin_time = g.checkin_time
      ]_vars

====
